---- MODULE Spec2Model ----
(***************************************************************************)
(* Model of package saia (src/saia.go): the process-wide settings testMode *)
(* and timeout, their setters SetProductionMode and SetTimeout, and the    *)
(* method RequestPickup, step by step.                                     *)
(*                                                                         *)
(* A text (a Go string) is a sequence of chunks; a chunk is a string that  *)
(* stands for one character or for one literal piece of text.              *)
(* Concatenation of Go strings is \o.                                      *)
(*                                                                         *)
(* A time.Duration is an integer; the model counts it in milliseconds      *)
(* instead of nanoseconds to keep the numbers small.  The products        *)
(* s * Second of the modelled arguments do not wrap around in int64.       *)
(*                                                                         *)
(* One goroutine calls RequestPickup, one call after the other; the        *)
(* setters are steps of other goroutines and interleave with the steps of  *)
(* a call in flight.  RequestPickup writes no package variable, so calls   *)
(* in flight together do not influence each other and one is enough.  The  *)
(* settings are each one word wide or a string of length one, so a racing  *)
(* read yields a value that was written (64-bit build).                    *)
(***************************************************************************)
EXTENDS Integers, Sequences, FiniteSets, TLC

(***************************************************************************)
(* Bounds of the model.                                                    *)
(***************************************************************************)
MaxCalls == 2

(***************************************************************************)
(* Constants of the package.                                               *)
(***************************************************************************)
saiaURL == <<"http://www.saiasecure.com/webservice/pickup/xml.aspx">>

\* time.Second, in the model's unit of duration (milliseconds)
Second == 1000

\* var testMode = "Y"
InitTestMode == <<"Y">>

\* var timeout = time.Duration(10 * time.Second)
InitTimeout == 10 * Second

\* xml.Header
xmlHeader == <<"<?xml version=\"1.0\" encoding=\"UTF-8\"?>", "\n">>

MsgMarshal == <<"saia.RequestPickup - could not marshal xml">>
MsgPost == <<"saia.RequestPickup - could not make post request">>
MsgRead1 == <<"saia.RequestPickup - could not read response 1">>
MsgRead2 == <<"saia.RequestPickup - could not read response 2">>
MsgFailed == <<"saia.RequestPickup - pickup request failed">>

(***************************************************************************)
(* Errors.  An error value is nil or carries the text Error() returns.     *)
(***************************************************************************)
NilErr == [nil |-> TRUE, text |-> <<>>]

\* errors.New(message)
ErrorsNew(message) == [nil |-> FALSE, text |-> message]

\* errors.Wrap(err, message): nil for a nil err, else "message: cause"
ErrorsWrap(e, message) ==
    IF e.nil THEN NilErr
    ELSE [nil |-> FALSE, text |-> message \o <<": ">> \o e.text]

(***************************************************************************)
(* encoding/xml, outbound: xml.Marshal of a Request.                       *)
(***************************************************************************)
\* xml.EscapeText on one character
EscapeChunk(ch) ==
    CASE ch = "&" -> "&amp;"
      [] ch = "<" -> "&lt;"
      [] ch = ">" -> "&gt;"
      [] OTHER -> ch

EscapeText(t) == [i \in 1..Len(t) |-> EscapeChunk(t[i])]

Digit(d) == <<"0", "1", "2", "3", "4", "5", "6", "7", "8", "9">>[d + 1]

\* strconv.FormatUint(n, 10)
RECURSIVE FormatUint(_)
FormatUint(n) == IF n < 10 THEN <<Digit(n)>> ELSE FormatUint(n \div 10) \o <<Digit(n % 10)>>

StartTag(name) == "<" \o name \o ">"
EndTag(name) == "</" \o name \o ">"

\* one element with character data
Element(name, t) == <<StartTag(name)>> \o EscapeText(t) \o <<EndTag(name)>>

\* the fields of Item, in the order of the struct; Weight is a whole number
\* of pounds, which a float64 prints like an integer
MarshalItem(it) ==
    Element("DestinationZipcode", it.DestinationZipcode)
    \o Element("Pieces", FormatUint(it.Pieces))
    \o Element("Package", it.Package)
    \o Element("Weight", FormatUint(it.Weight))
    \o Element("DestinationCountry", it.DestinationCountry)
    \o Element("Freezable", it.Freezable)

\* the names of Request's string fields, in the order of the struct
RequestStringFields ==
    <<"UserID", "Password", "TestMode", "AccountNumber", "CompanyName", "Street",
      "City", "State", "Zipcode", "ContactName", "ContactPhone", "PickupDate",
      "ReadyTime", "CloseTime", "SpecialInstructions">>

RECURSIVE MarshalStringFields(_, _)
MarshalStringFields(r, i) ==
    IF i > Len(RequestStringFields) THEN <<>>
    ELSE Element(RequestStringFields[i], r[RequestStringFields[i]])
         \o MarshalStringFields(r, i + 1)

\* xml.Marshal(p): root Create, Item under Details>DetailItem, then the fields
XmlMarshal(r) ==
    <<StartTag("Create"), StartTag("Details"), StartTag("DetailItem")>>
    \o MarshalItem(r.Item)
    \o <<EndTag("DetailItem"), EndTag("Details")>>
    \o MarshalStringFields(r, 1)
    \o <<EndTag("Create")>>

\* xml.Marshal fails for values of a kind it does not support only; Request
\* and Item hold strings, a uint and a float64.
XmlMarshalError(r) == NilErr

(***************************************************************************)
(* encoding/xml, inbound: xml.Unmarshal into a ResponseData.               *)
(***************************************************************************)
\* the string fields of ResponseData (TotalWeight and PickupTerminal are
\* decoded like the others and are left out)
ResponseStringFields ==
    {"Code", "Element", "Fault", "Message", "TestMode", "PickupNumber", "NextBusinessDay"}

\* the zero value of ResponseData
ZeroResponse ==
    [Code |-> <<>>, Element |-> <<>>, Fault |-> <<>>, Message |-> <<>>,
     TestMode |-> <<>>, PickupNumber |-> <<>>, TotalPieces |-> 0,
     NextBusinessDay |-> <<>>]

\* element names a document on the wire may use
WireNames == ResponseStringFields \cup {"TotalPieces", "Response", "html", "Other"}

IsStartTag(ch) == \E n \in WireNames : ch = StartTag(n)
IsEndTag(ch) == \E n \in WireNames : ch = EndTag(n)
TagName(ch) == CHOOSE n \in WireNames : ch = StartTag(n) \/ ch = EndTag(n)

\* an entity reference back to its character
UnescapeChunk(ch) ==
    CASE ch = "&amp;" -> "&"
      [] ch = "&lt;" -> "<"
      [] ch = "&gt;" -> ">"
      [] OTHER -> ch

UnescapeText(t) == [i \in 1..Len(t) |-> UnescapeChunk(t[i])]

IsDigit(ch) == \E d \in 0..9 : ch = Digit(d)
DigitValue(ch) == CHOOSE d \in 0..9 : ch = Digit(d)

\* strconv.ParseUint(t, 10, 64): -1 stands for a syntax error
RECURSIVE ParseUint(_)
ParseUint(t) ==
    IF t = <<>> THEN -1
    ELSE IF ~IsDigit(t[Len(t)]) THEN -1
    ELSE IF Len(t) = 1 THEN DigitValue(t[1])
    ELSE LET hi == ParseUint(SubSeq(t, 1, Len(t) - 1))
         IN IF hi < 0 THEN -1 ELSE 10 * hi + DigitValue(t[Len(t)])

SyntaxError == ErrorsNew(<<"XML syntax error: unexpected EOF">>)
EOFError == ErrorsNew(<<"EOF">>)
NumberError == ErrorsNew(<<"strconv.ParseUint: invalid syntax">>)

\* position of the end tag that closes the element opened before position i,
\* 0 when the document ends first (the modelled elements hold text only)
RECURSIVE CloseOf(_, _)
CloseOf(b, i) ==
    IF i > Len(b) THEN 0
    ELSE IF IsEndTag(b[i]) THEN i
    ELSE IF IsStartTag(b[i]) THEN 0
    ELSE CloseOf(b, i + 1)

\* the decoder inside the root element, at position i, fields decoded so far in v
RECURSIVE DecodeChildren(_, _, _, _)
DecodeChildren(b, root, i, v) ==
    IF i > Len(b) THEN [v |-> v, err |-> SyntaxError]
    ELSE IF b[i] = EndTag(root) THEN [v |-> v, err |-> NilErr]
    ELSE IF IsEndTag(b[i]) THEN [v |-> v, err |-> SyntaxError]
    ELSE IF ~IsStartTag(b[i]) THEN DecodeChildren(b, root, i + 1, v)
    ELSE LET n == TagName(b[i])
             j == CloseOf(b, i + 1)
             t == UnescapeText(SubSeq(b, i + 1, j - 1))
         IN IF j = 0 \/ b[j] # EndTag(n) THEN [v |-> v, err |-> SyntaxError]
            ELSE IF n \in ResponseStringFields
                 THEN DecodeChildren(b, root, j + 1, [v EXCEPT ![n] = t])
            ELSE IF n = "TotalPieces"
                 THEN IF t = <<>>
                      THEN DecodeChildren(b, root, j + 1, [v EXCEPT !.TotalPieces = 0])
                      ELSE IF ParseUint(t) < 0 THEN [v |-> v, err |-> NumberError]
                      ELSE DecodeChildren(b, root, j + 1,
                                          [v EXCEPT !.TotalPieces = ParseUint(t)])
            ELSE DecodeChildren(b, root, j + 1, v)

\* xml.Unmarshal(body, &v): the value after the call and the error returned.
\* ResponseData names no root element, so any root is accepted.
XmlUnmarshal(b, v) ==
    IF b = <<>> THEN [v |-> v, err |-> EOFError]
    ELSE IF ~IsStartTag(b[1]) THEN [v |-> v, err |-> SyntaxError]
    ELSE DecodeChildren(b, TagName(b[1]), 2, v)

(***************************************************************************)
(* The inputs of the model.                                                *)
(***************************************************************************)
\* the Requests callers pass
MkRequest(tm, pw) ==
    [Item |-> [DestinationZipcode |-> <<"30001">>, Pieces |-> 12,
               Package |-> <<"SK">>, Weight |-> 500,
               DestinationCountry |-> <<"US">>, Freezable |-> <<"N">>],
     UserID |-> <<"usr">>, Password |-> pw, TestMode |-> tm,
     AccountNumber |-> <<"07">>, CompanyName |-> <<"A", "&", "B">>,
     Street |-> <<>>, City |-> <<>>, State |-> <<"GA">>, Zipcode |-> <<>>,
     ContactName |-> <<>>, ContactPhone |-> <<>>, PickupDate |-> <<"2018-01-02">>,
     ReadyTime |-> <<>>, CloseTime |-> <<>>, SpecialInstructions |-> <<>>]

Requests ==
    { MkRequest(<<"N">>, <<"p", "w">>),
      MkRequest(<<"Y">>, <<"p", "&", "<">>) }

\* the arguments of SetTimeout, in seconds
TimeoutArgs == {-1, 0, 3}

\* a document the carrier may answer with
WireDoc(code, message, pickupNumber) ==
    <<StartTag("Response")>>
    \o Element("Code", code)
    \o Element("Message", message)
    \o Element("Other", <<"x">>)
    \o Element("PickupNumber", pickupNumber)
    \o Element("TotalPieces", IF pickupNumber = <<>> THEN <<>> ELSE <<"1", "2">>)
    \o <<EndTag("Response")>>

NoMessage == <<>>
CarrierMessage == <<"no", "&", "go">>
CodeS04 == <<"S04">>
Number77 == <<"7", "7">>

WellFormedBodies ==
    { WireDoc(<<>>, NoMessage, Number77),
      WireDoc(<<>>, CarrierMessage, <<>>),
      WireDoc(CodeS04, NoMessage, Number77) }

\* bodies xml.Unmarshal rejects: a document cut before its end, a number that
\* is none (and, with status 500 below, nothing at all)
MalformedBodies ==
    { SubSeq(WireDoc(<<>>, NoMessage, Number77), 1, 12),
      <<StartTag("Response")>> \o Element("PickupNumber", Number77)
          \o Element("TotalPieces", <<"l", "o", "t">>) \o <<EndTag("Response")>> }

Bodies == WellFormedBodies \cup MalformedBodies

\* the answers of the carrier's server: a status and a body
Responses ==
    {[StatusCode |-> 200, Body |-> b] : b \in Bodies}
    \cup {[StatusCode |-> 500, Body |-> b] :
            b \in {WireDoc(<<>>, NoMessage, Number77), <<>>}}

\* what http.Client.Post can end with: a response with any status, a failed
\* connection, or the Client's deadline; a Timeout that is not positive sets
\* no deadline
ConnError == ErrorsNew(<<"dial tcp: connection refused">>)
DeadlineError == ErrorsNew(<<"context deadline exceeded (Client.Timeout exceeded while awaiting headers)">>)
BodyReadError == ErrorsNew(<<"unexpected EOF">>)

PostErrors(client) ==
    {ConnError} \cup (IF client.Timeout > 0 THEN {DeadlineError} ELSE {})

\* what reading res.Body can fail with
ReadErrors(client) == {BodyReadError}

(***************************************************************************)
(* State.                                                                  *)
(***************************************************************************)
VARIABLES
    testMode,      \* package variable testMode
    timeout,       \* package variable timeout
    pc,            \* where the call of RequestPickup stands
    p,             \* the Request the receiver points to
    xmlString,     \* local xmlString; <<>> before it is assigned
    httpClient,    \* local httpClient, <<>> before it is made
    res,           \* local res, <<>> before Post returned it
    body,          \* local body
    responseData,  \* named result responseData
    err,           \* named result err
    logged,        \* what the call has written to the log, in order
    wire,          \* the POSTs the call has issued: <<url, content type, document>>
    hist,          \* history of the call: the Request as passed, the settings
                   \* when it began, which settings were set while it read them,
                   \* whether the transport failed, which statements it has run
    cfg,           \* history of the setters: was SetProductionMode(true) called,
                   \* was SetProductionMode(false) called after it, the last
                   \* argument of SetTimeout
    count          \* history: calls begun, documents serialized, POSTs issued

vars == <<testMode, timeout, pc, p, xmlString, httpClient, res, body,
          responseData, err, logged, wire, hist, cfg, count>>

callVars == <<p, xmlString, httpClient, res, body, responseData, err, logged, wire>>

NoArg == <<>>

Init ==
    /\ testMode = InitTestMode
    /\ timeout = InitTimeout
    /\ pc = "idle"
    /\ p = MkRequest(<<>>, <<"p", "w">>)
    /\ xmlString = <<>>
    /\ httpClient = <<>>
    /\ res = <<>>
    /\ body = <<>>
    /\ responseData = ZeroResponse
    /\ err = NilErr
    /\ logged = <<>>
    /\ wire = <<>>
    /\ hist = [p0 |-> MkRequest(<<>>, <<"p", "w">>), testMode |-> InitTestMode,
               timeout |-> InitTimeout, prod |-> FALSE, reset |-> FALSE,
               same |-> FALSE, tmRaced |-> FALSE, toRaced |-> FALSE,
               transport |-> FALSE, unmarshalled |-> FALSE, classified |-> FALSE]
    /\ cfg = [prod |-> FALSE, reset |-> FALSE, lastSeconds |-> NoArg]
    /\ count = [calls |-> 0, serialized |-> 0, posts |-> 0]

(***************************************************************************)
(* The setters.                                                            *)
(***************************************************************************)
\* a setter that switches back: SetProductionMode(false) restores test mode
ProductionModeValueToggle(yes, cur) == IF yes THEN <<"N">> ELSE <<"Y">>

\* testMode after SetProductionMode(yes)
ProductionModeValue(yes, cur) == IF yes THEN <<"N">> ELSE cur

SetProductionMode(yes) ==
    /\ testMode' = ProductionModeValue(yes, testMode)
    /\ cfg' = [cfg EXCEPT !.prod = @ \/ yes, !.reset = @ \/ (cfg.prod /\ ~yes)]
    /\ hist' = [hist EXCEPT !.tmRaced = @ \/ (yes /\ pc = "entry")]
    /\ UNCHANGED <<timeout, pc, callVars, count>>

\* a setter that validates: an argument that is not positive gives the default
TimeoutValueClamped(seconds) == IF seconds <= 0 THEN 10 * Second ELSE seconds * Second

\* timeout after SetTimeout(seconds)
TimeoutValue(seconds) == seconds * Second

SetTimeout(seconds) ==
    /\ timeout' = TimeoutValue(seconds)
    /\ cfg' = [cfg EXCEPT !.lastSeconds = <<seconds>>]
    /\ hist' = [hist EXCEPT !.toRaced = @ \/ pc \in {"entry", "post"}]
    /\ UNCHANGED <<testMode, pc, callVars, count>>

(***************************************************************************)
(* RequestPickup.                                                          *)
(***************************************************************************)
\* a caller invokes r.RequestPickup(): the results are the zero values
Call(r) ==
    /\ pc \in {"idle", "done"}
    /\ count.calls < MaxCalls
    /\ pc' = "entry"
    /\ p' = r
    /\ xmlString' = <<>>
    /\ httpClient' = <<>>
    /\ res' = <<>>
    /\ body' = <<>>
    /\ responseData' = ZeroResponse
    /\ err' = NilErr
    /\ logged' = <<>>
    /\ wire' = <<>>
    /\ hist' = [p0 |-> r, testMode |-> testMode, timeout |-> timeout,
                prod |-> cfg.prod, reset |-> cfg.reset,
                same |-> count.calls > 0 /\ r = hist.p0,
                tmRaced |-> FALSE, toRaced |-> FALSE,
                transport |-> FALSE, unmarshalled |-> FALSE, classified |-> FALSE]
    /\ count' = [count EXCEPT !.calls = @ + 1]
    /\ UNCHANGED <<testMode, timeout, cfg>>

\* the flag is set only when the caller left it empty
OverwriteTestModeIfEmpty(r, tm) ==
    IF r.TestMode = <<>> THEN [r EXCEPT !.TestMode = tm] ELSE r

\* p.TestMode = testMode
OverwriteTestMode(r, tm) == [r EXCEPT !.TestMode = tm]

\* lines 162-173: the flag, xml.Marshal, the header, log.Print
Serialize ==
    /\ pc = "entry"
    /\ p' = OverwriteTestMode(p, testMode)
    /\ IF ~XmlMarshalError(p').nil
       THEN /\ err' = ErrorsWrap(XmlMarshalError(p'), MsgMarshal)
            /\ pc' = "done"
            /\ UNCHANGED <<xmlString, logged, count>>
       ELSE /\ xmlString' = xmlHeader \o XmlMarshal(p')
            /\ logged' = Append(logged, <<"xml", xmlString'>>)
            /\ pc' = "post"
            /\ count' = [count EXCEPT !.serialized = @ + 1]
            /\ err' = NilErr
    /\ UNCHANGED <<testMode, timeout, httpClient, res, body, responseData, wire,
                   hist, cfg>>

\* the document is posted a second time
PostsIssuedTwice(url, doc) == <<<<url, <<"text/xml">>, doc>>, <<url, <<"text/xml">>, doc>>>>

\* the POSTs one call of httpClient.Post issues
PostsIssued(url, doc) == <<<<url, <<"text/xml">>, doc>>>>

\* a Client with the default timeout, whatever the setting
NewClientDefault(t) == [Timeout |-> 10 * Second]

\* http.Client{Timeout: timeout}
NewClient(t) == [Timeout |-> t]

\* lines 177-184: the Client with the timeout, the POST
Post ==
    /\ pc = "post"
    /\ httpClient' = <<NewClient(timeout)>>
    /\ wire' = wire \o PostsIssued(saiaURL, xmlString)
    /\ count' = [count EXCEPT !.posts = @ + Len(PostsIssued(saiaURL, xmlString))]
    /\ \/ \E e \in PostErrors(httpClient'[1]) :
             /\ err' = ErrorsWrap(e, MsgPost)
             /\ pc' = "done"
             /\ res' = res
             /\ hist' = [hist EXCEPT !.transport = TRUE]
       \/ \E r \in Responses :
             /\ res' = <<r>>
             /\ err' = NilErr
             /\ pc' = "read"
             /\ hist' = hist
    /\ UNCHANGED <<testMode, timeout, p, xmlString, body, responseData, logged, cfg>>

\* a ReadAll that failed, with a missing return: the call goes on
ReadBodyGoesOn ==
    /\ pc = "read"
    /\ \/ \E e \in ReadErrors(httpClient[1]) :
             /\ err' = ErrorsWrap(e, MsgRead1)
             /\ pc' = "unmarshal"
             /\ body' = body
             /\ hist' = [hist EXCEPT !.transport = TRUE]
       \/ /\ body' = res[1].Body
          /\ err' = NilErr
          /\ pc' = "unmarshal"
          /\ hist' = hist
    /\ UNCHANGED <<testMode, timeout, p, xmlString, httpClient, res, responseData,
                   logged, wire, cfg, count>>

\* lines 188-193: ioutil.ReadAll(res.Body)
ReadBody ==
    /\ pc = "read"
    /\ \/ \E e \in ReadErrors(httpClient[1]) :
             /\ err' = ErrorsWrap(e, MsgRead1)
             /\ pc' = "done"
             /\ body' = body
             /\ hist' = [hist EXCEPT !.transport = TRUE]
       \/ /\ body' = res[1].Body
          /\ err' = NilErr
          /\ pc' = "unmarshal"
          /\ hist' = hist
    /\ UNCHANGED <<testMode, timeout, p, xmlString, httpClient, res, responseData,
                   logged, wire, cfg, count>>

\* only the code decides
PickupFailedCodeOnly(rd) == rd.Code # <<>>

\* line 201
PickupFailed(rd) == rd.Code # <<>> \/ rd.PickupNumber = <<>>

\* the carrier's message is left out
PickupFailedErrorNoMessage(rd) == ErrorsNew(MsgFailed)

\* lines 205-206
PickupFailedError(rd) == ErrorsWrap(ErrorsNew(MsgFailed), rd.Message)

\* a successful response is not logged
ResponseLogFailureOnly(rd) ==
    IF PickupFailed(rd)
    THEN <<<<"msg", MsgFailed>>, <<"response", rd>>>>
    ELSE <<>>

\* lines 202-203 and 210: what the call logs once the response is parsed
ResponseLog(rd) ==
    IF PickupFailed(rd)
    THEN <<<<"msg", MsgFailed>>, <<"response", rd>>>>
    ELSE <<<<"response", rd>>>>

\* lines 195-214: xml.Unmarshal, the check of the response, the return
Unmarshal ==
    /\ pc = "unmarshal"
    /\ LET u == XmlUnmarshal(body, responseData)
       IN /\ responseData' = u.v
          /\ IF ~u.err.nil
             THEN /\ err' = ErrorsWrap(u.err, MsgRead2)
                  /\ logged' = logged
                  /\ hist' = [hist EXCEPT !.unmarshalled = TRUE]
             ELSE /\ err' = IF PickupFailed(u.v) THEN PickupFailedError(u.v) ELSE NilErr
                  /\ logged' = logged \o ResponseLog(u.v)
                  /\ hist' = [hist EXCEPT !.unmarshalled = TRUE, !.classified = TRUE]
    /\ pc' = "done"
    /\ UNCHANGED <<testMode, timeout, p, xmlString, httpClient, res, body, wire,
                   cfg, count>>

Next ==
    \/ \E yes \in BOOLEAN : SetProductionMode(yes)
    \/ \E seconds \in TimeoutArgs : SetTimeout(seconds)
    \/ \E r \in Requests : Call(r)
    \/ Serialize
    \/ Post
    \/ ReadBody
    \/ Unmarshal

Spec == Init /\ [][Next]_vars

(***************************************************************************)
(* Properties.                                                             *)
(***************************************************************************)
Returned == pc = "done"

\* position of the first chunk ch of doc, 0 when there is none
FirstIndex(doc, ch) ==
    IF \E i \in 1..Len(doc) : doc[i] = ch
    THEN CHOOSE i \in 1..Len(doc) : doc[i] = ch /\ \A j \in 1..(i - 1) : doc[j] # ch
    ELSE 0

HasElement(doc, name) ==
    /\ FirstIndex(doc, StartTag(name)) > 0
    /\ FirstIndex(doc, EndTag(name)) > FirstIndex(doc, StartTag(name))

\* the character data of the first element name of doc, as written
ElementText(doc, name) ==
    SubSeq(doc, FirstIndex(doc, StartTag(name)) + 1, FirstIndex(doc, EndTag(name)) - 1)

\* the document of the call's POST
SentDoc == wire[1][3]

\* the fields a well-formed body of the carrier decodes to
Decoded(code, message, pickupNumber) ==
    [ZeroResponse EXCEPT !.Code = code, !.Message = message,
                         !.PickupNumber = pickupNumber,
                         !.TotalPieces = IF pickupNumber = <<>> THEN 0 ELSE 12]

\* the call read a body that is the well-formed document of (code, message, number)
ReadWellFormed(code, message, pickupNumber) ==
    /\ hist.unmarshalled
    /\ body = WireDoc(code, message, pickupNumber)
    /\ body \in WellFormedBodies

SerializationFailed == xmlString = <<>>
TransportFailed == hist.transport
DecodingFailed == hist.unmarshalled /\ body \notin WellFormedBodies
BusinessFailed ==
    /\ hist.unmarshalled
    /\ body \in WellFormedBodies
    /\ (responseData.Code # <<>> \/ responseData.PickupNumber = <<>>)

\* C1: when RequestPickup has returned, its error is non-nil exactly if the
\* serialization failed, the POST or the read of the body failed, the body
\* did not parse, or the parsed response has a Code or lacks a PickupNumber;
\* the status of the reply plays no part.
C1_ErrorIff ==
    Returned =>
        (~err.nil <=> (SerializationFailed \/ TransportFailed \/ DecodingFailed
                       \/ BusinessFailed))

\* a reply with status 500 whose body has no Code and a PickupNumber: nil error
C1_Witness ==
    /\ Returned
    /\ res # <<>>
    /\ res[1].StatusCode = 500
    /\ ReadWellFormed(<<>>, NoMessage, Number77)
    /\ responseData.PickupNumber = Number77
    /\ err.nil

\* C2: after a business failure the error reads "<Message>: saia.RequestPickup -
\* pickup request failed" with the Message of the parsed response, and the
\* response returned is the response parsed from the body.
C2_BusinessError ==
    \A c \in {<<>>, CodeS04}, m \in {NoMessage, CarrierMessage}, n \in {<<>>, Number77} :
        (Returned /\ ReadWellFormed(c, m, n) /\ (c # <<>> \/ n = <<>>)) =>
            /\ ~err.nil
            /\ err.text = m \o <<": ">> \o MsgFailed
            /\ responseData = Decoded(c, m, n)
            /\ responseData.Message = m

C2_Witness ==
    /\ Returned
    /\ ReadWellFormed(<<>>, CarrierMessage, <<>>)
    /\ err.text = CarrierMessage \o <<": ">> \o MsgFailed
    /\ responseData # ZeroResponse

\* the setting the call read at its entry: the one in force when the call began,
\* or "N" when SetProductionMode(true) ran between the call and the read
SettingRead == IF hist.tmRaced THEN <<"N">> ELSE hist.testMode

\* C3: the document sent carries the process-wide test mode, never the
\* caller's, and of the caller's Request only TestMode is changed, whichever
\* way the call returns.
C3_TestModeOverwritten ==
    /\ pc = "entry" => p = hist.p0
    /\ pc \in {"post", "read", "unmarshal", "done"} =>
          /\ p = [hist.p0 EXCEPT !.TestMode = SettingRead]
          /\ p.Item = hist.p0.Item
    /\ wire # <<>> =>
          /\ HasElement(SentDoc, "TestMode")
          /\ ElementText(SentDoc, "TestMode") = SettingRead
          /\ ElementText(SentDoc, "TestMode") \in {<<"Y">>, <<"N">>}

\* the caller's value differs from the setting and the setting is sent
C3_Witness ==
    /\ Returned
    /\ wire # <<>>
    /\ hist.p0.TestMode # ElementText(SentDoc, "TestMode")
    /\ hist.p0.TestMode # <<>>
    /\ ElementText(SentDoc, "TestMode") = hist.testMode
    /\ ~hist.tmRaced

\* C4: the POST of a call begun after SetProductionMode(true) goes to a
\* production URL, another URL than saiaURL, the one a call posts to when
\* SetProductionMode was never called.
C4_ProductionURL ==
    /\ (wire # <<>> /\ ~hist.prod) => wire[1][1] = saiaURL
    /\ (wire # <<>> /\ hist.prod) => wire[1][1] # saiaURL

\* C5: when the POST or the read of the body failed, the call has returned a
\* wrapped error and the zero ResponseData, and has neither parsed nor checked
\* nor logged a response.
C5_TransportFailure ==
    TransportFailed =>
        /\ Returned
        /\ ~err.nil
        /\ \E e \in {ConnError, DeadlineError, BodyReadError} :
              err.text \in {MsgPost \o <<": ">> \o e.text, MsgRead1 \o <<": ">> \o e.text}
        /\ responseData = ZeroResponse
        /\ ~hist.unmarshalled
        /\ ~hist.classified
        /\ \A i \in 1..Len(logged) : logged[i][1] = "xml"

\* the read of the body of a reply failed
C5_Witness ==
    /\ Returned
    /\ TransportFailed
    /\ res # <<>>
    /\ res[1].Body # <<>>
    /\ responseData = ZeroResponse

\* C6: a call issues at most one POST, exactly one once its document is
\* serialized and posted, none again after a failure; and over all calls there
\* are as many POSTs as serialized documents.
C6_OnePostPerCall ==
    /\ Len(wire) <= 1
    /\ pc \in {"idle", "entry", "post"} => wire = <<>>
    /\ (pc \in {"read", "unmarshal", "done"} /\ ~SerializationFailed) => Len(wire) = 1
    /\ count.posts = IF pc = "post" THEN count.serialized - 1 ELSE count.serialized
    /\ count.serialized = IF pc = "entry" THEN count.calls - 1 ELSE count.calls

\* two calls with the same Request, one POST each
C6_Witness ==
    /\ Returned
    /\ hist.same
    /\ count.calls = 2
    /\ count.posts = 2
    /\ SentDoc = xmlString

\* the timeout SetTimeout was last asked for, in seconds; 10 before any call
SecondsAsked == IF cfg.lastSeconds = NoArg THEN 10 ELSE cfg.lastSeconds[1]

PostFailed == Returned /\ wire # <<>> /\ res = <<>>

HasXmlLog ==
    /\ Len(logged) >= 1
    /\ logged[1][1] = "xml"
    /\ logged[1][2] = xmlString
    /\ xmlString # <<>>
    /\ SubSeq(xmlString, 1, Len(xmlHeader)) = xmlHeader
    /\ ElementText(logged[1][2], "UserID") = EscapeText(p.UserID)
    /\ ElementText(logged[1][2], "Password") = EscapeText(p.Password)

HasResponseLog ==
    /\ Len(logged) >= 2
    /\ logged[Len(logged)] = <<"response", responseData>>

\* C8, as stated: every call that has returned has logged the outbound
\* document, with UserID and Password in it, and the parsed response.
C8_LogsOnEveryCall == Returned => (HasXmlLog /\ HasResponseLog)

\* C8, amended: every call logs the outbound document, with UserID and
\* Password in it, once it is serialized and before the POST; a call that has
\* returned has logged the response exactly if it parsed the body, failed
\* pickup or not.
C8_LogsWhatItHas ==
    /\ pc \in {"post", "read", "unmarshal", "done"} => (SerializationFailed \/ HasXmlLog)
    /\ (wire # <<>>) => (HasXmlLog /\ SentDoc = logged[1][2])
    /\ Returned =>
          (HasResponseLog <=> (hist.unmarshalled /\ body \in WellFormedBodies))
    /\ (Returned /\ err.nil) => (HasXmlLog /\ HasResponseLog /\ Len(logged) = 2)

\* a successful call: the document and the response are in the log
C8_Witness ==
    /\ Returned
    /\ err.nil
    /\ HasXmlLog
    /\ HasResponseLog
    /\ ElementText(logged[1][2], "Password") = <<"p", "&amp;", "&lt;">>

\* C9: a call whose reads no setter raced with uses the settings in force
\* when it began; a read that SetProductionMode(true) raced with yields "N",
\* a read of the timeout that SetTimeout raced with yields a value that was
\* set; the flag is read before the document is made and the timeout when
\* the Client is made.
C9_SettingsRead ==
    /\ pc \in {"post", "read", "unmarshal", "done"} =>
          /\ ~hist.tmRaced => p.TestMode = hist.testMode
          /\ hist.tmRaced => p.TestMode = <<"N">>
    /\ httpClient # <<>> =>
          /\ ~hist.toRaced => httpClient[1].Timeout = hist.timeout
          /\ hist.toRaced =>
                httpClient[1].Timeout \in ({hist.timeout} \cup {s * Second : s \in TimeoutArgs})
    /\ pc \in {"idle", "entry", "post"} => httpClient = <<>>

\* a call in flight that took the old flag and the new timeout, both settings
\* having changed since it began
C9_Witness ==
    /\ pc = "read"
    /\ hist.testMode = <<"Y">>
    /\ p.TestMode = <<"Y">>
    /\ testMode = <<"N">>
    /\ hist.toRaced
    /\ httpClient[1].Timeout # hist.timeout
    /\ httpClient[1].Timeout = timeout

====
